---------------------------- MODULE Spec2Model ----------------------------
(***************************************************************************)
(* Call Recording Analyzer: the analyze-call route in its two variants     *)
(* (Hindi: src/src/app/api/analyze-call/route.ts, English:                 *)
(* src/unnamed/part_000).                                                  *)
(*                                                                         *)
(* Text abstraction.  Every scorer reads an utterance's text only through  *)
(* text.toLowerCase().includes(keyword).  A text is therefore modelled as  *)
(* the set of lexicon terms that occur in its lower-cased form; the terms  *)
(* of the Hindi variant are written in Latin transliteration.  A text that *)
(* contains a term contains every term that is a substring of it (for      *)
(* example "rikording" contains "rikord"), so the texts used below are     *)
(* closed under that relation.                                             *)
(*                                                                         *)
(* Numbers.  Sentiment scores are in tenths (3 stands for 0.3), start      *)
(* times are in whole seconds, topic confidences in tenths.                *)
(***************************************************************************)
EXTENDS Integers, Sequences, FiniteSets, TLC

VARIABLES
    variant,        \* "hi" (route.ts) or "en" (part_000): which handler is deployed
    apiKey,         \* whether process.env.DEEPGRAM_API_KEY is set
    request,        \* the request being handled: [file |-> whether the form holds a file]
    pc,             \* position of the POST handler: "idle", "fetching", "done"
    providerCalls,  \* number of fetch calls made to the transcription provider
    data,           \* the provider's JSON for this request (NoData before it arrives)
    utterances,     \* the handler's local `utterances` array after it ran
    sentiment,      \* the handler's local `sentiment` object after it ran
    topics,         \* the handler's local `topics` array after it ran
    intents,        \* the handler's local `intents` array after it ran
    response,       \* the NextResponse returned (NoResponse while running)
    audioFile,      \* Home: the selected file ("none" for null)
    audioUrl,       \* Home: the object URL of the selected file (0 for null)
    objectUrls,     \* the object URLs created and not yet revoked
    loading,        \* Home: the loading flag
    feedback,       \* Home: the scores displayed (NoFeedback for null)
    process         \* the handleProcess call suspended at an await, if any

uiVars == <<audioFile, audioUrl, objectUrls, loading, feedback, process>>

vars == <<variant, apiKey, request, pc, providerCalls, data, utterances, sentiment, topics,
          intents, response, uiVars>>

\* bounds of the model
MaxScan == 6       \* longest transcript of the urgency (per-utterance) scans
MaxRebuttal == 7   \* longest transcript of the Hindi objection/rebuttal scan
MaxShort == 2      \* longest transcript of the position/time-window cases
MaxSignal == 1     \* longest transcript of the sentiment/topic cases
MaxSent == 4       \* call sentiment score ranges over -0.4 .. 0.4 in tenths
MaxTopics == 2     \* longest topic list
MaxSelections == 4 \* file selections (object URLs created) on one page

\* the object {}: a record without fields.  An absent (undefined) field of a JSON
\* object is a field name outside the record's DOMAIN.
EmptyObject == [k \in {} |-> k]

has(obj, k) == k \in DOMAIN obj

Min(a, b) == IF a < b THEN a ELSE b
Max(a, b) == IF a > b THEN a ELSE b

(***************************************************************************)
(* Parameter registry                                                      *)
(***************************************************************************)
ParameterKeys ==
    {"greeting", "collectionUrgency", "rebuttalCustomerHandling", "callEtiquette",
     "callDisclaimer", "correctDisposition", "callClosing", "fatalIdentification",
     "fatalTapeDiscloser", "fatalToneLanguage"}

parameters ==
    <<[key |-> "greeting",                 weight |-> 5,  inputType |-> "PASS_FAIL"],
      [key |-> "collectionUrgency",        weight |-> 15, inputType |-> "SCORE"],
      [key |-> "rebuttalCustomerHandling", weight |-> 15, inputType |-> "SCORE"],
      [key |-> "callEtiquette",            weight |-> 15, inputType |-> "SCORE"],
      [key |-> "callDisclaimer",           weight |-> 5,  inputType |-> "PASS_FAIL"],
      [key |-> "correctDisposition",       weight |-> 10, inputType |-> "PASS_FAIL"],
      [key |-> "callClosing",              weight |-> 5,  inputType |-> "PASS_FAIL"],
      [key |-> "fatalIdentification",      weight |-> 5,  inputType |-> "PASS_FAIL"],
      [key |-> "fatalTapeDiscloser",       weight |-> 10, inputType |-> "PASS_FAIL"],
      [key |-> "fatalToneLanguage",        weight |-> 15, inputType |-> "PASS_FAIL"]>>

\* the registry entry of a key
Param(k) == CHOOSE i \in 1..Len(parameters) : parameters[i].key = k

Weight(k) == parameters[Param(k)].weight

InputType(k) == parameters[Param(k)].inputType

RECURSIVE SumWeights(_)
SumWeights(n) == IF n = 0 THEN 0 ELSE parameters[n].weight + SumWeights(n - 1)

(***************************************************************************)
(* keyword.some(k => text.includes(k)) over a text given as its term set   *)
(***************************************************************************)
includes(text, keyword) == keyword \in text

someIncluded(text, keywords) == \E keyword \in keywords : includes(text, keyword)

\* utterances.some(pred) where pred is given as the set of indices satisfying it
Indices(utts) == 1..Len(utts)

(***************************************************************************)
(* Hindi variant: lexicons (transliterated)                                *)
(***************************************************************************)
HiGreetingKeywords ==
    {"namaste", "hailo", "gud morning", "gud afternoon", "gud evening", "swagat hai"}

HiUrgencyKeywords ==
    {"zaroori", "turant", "asap", "kritikal", "mahatvapurn", "dedlain", "dyu det",
     "pement dyu", "let pement", "ovardyu"}

HiQuestionTokens == {"kab", "kyon", "kaise"}

HiTimeReferences == {"aaj", "kal", "is hafte", "is mahine"}

HiObjectionKeywords ==
    {"nahin kar sakte", "nahin hoga", "nahin", "sambhav nahin", "bahut mehnga",
     "aford nahin", "mushkil", "samasya", "chinta", "pareshan"}

HiRebuttalKeywords ==
    {"samajhte hain", "lekin", "parantu", "vaikalpik", "samadhan", "madad", "sahayata",
     "saport", "ofar", "vikalp", "sujhav"}

HiDisclaimerKeywords ==
    {"rikording", "rikord", "tep", "monitaring", "kol rikord ho raha hai",
     "kwaliti ke liye", "trening ke liye"}

HiDispositionKeywords ==
    {"shreni", "prakar", "karan", "uddeshya", "disposition_hi", "vargikaran", "samadhan"}

HiCausalConnectives == {"kyonki", "karan", "vajah"}

HiClosingKeywords ==
    {"dhanyavad", "shukriya", "aabhar", "alvida", "bay", "shubh din", "khyal rakhna",
     "accha din"}

HiGratitudeKeywords == {"dhanyavad", "shukriya"}

HiIdKeywords ==
    {"naam", "aidi", "akaunt", "grahak", "refarens", "akaunt nambar", "grahak aidi",
     "pehchan"}

HiNegativeKeywords ==
    {"gaali", "dhamki", "gussa", "abhadra", "bevkoof", "bekar", "bura", "bhayanak",
     "sabse kharab"}


(***************************************************************************)
(* Hindi variant: scorers.  Sequences are 1-based here; the source's       *)
(* 0-based index of element i is i - 1.                                    *)
(***************************************************************************)
HiGreetingSeconds == 3

\* mutant: < instead of <= on the start time
analyzeGreetingHi_Strict(utts) ==
    IF Len(utts) = 0 THEN 0
    ELSE IF someIncluded(utts[1].transcript, HiGreetingKeywords)
            /\ utts[1].start < HiGreetingSeconds
         THEN 5 ELSE 0

analyzeGreetingHi(utts) ==
    IF Len(utts) = 0 THEN 0
    ELSE LET firstUtterance == utts[1]
             hasGreeting == someIncluded(firstUtterance.transcript, HiGreetingKeywords)
         IN IF hasGreeting /\ firstUtterance.start <= HiGreetingSeconds THEN 5 ELSE 0

\* the reducer's increment for one utterance text
\* mutant: urgency is counted per term occurrence, not per utterance
urgencyPointsHi_PerTerm(text) ==
    LET hasQuestioning == includes(text, "?") /\ someIncluded(text, HiQuestionTokens)
        hasTimeReference == someIncluded(text, HiTimeReferences)
    IN (2 * Cardinality(text \cap HiUrgencyKeywords)) + (IF hasQuestioning THEN 1 ELSE 0)
       + (IF hasTimeReference THEN 1 ELSE 0)

urgencyPointsHi(text) ==
    LET hasUrgency == someIncluded(text, HiUrgencyKeywords)
        hasQuestioning == includes(text, "?") /\ someIncluded(text, HiQuestionTokens)
        hasTimeReference == someIncluded(text, HiTimeReferences)
    IN (IF hasUrgency THEN 2 ELSE 0) + (IF hasQuestioning THEN 1 ELSE 0)
       + (IF hasTimeReference THEN 1 ELSE 0)

RECURSIVE urgencyReduceHi(_, _)
urgencyReduceHi(utts, n) ==
    IF n = 0 THEN 0
    ELSE urgencyReduceHi(utts, n - 1) + urgencyPointsHi(utts[n].transcript)

\* mutant: the upper clamp is forgotten
analyzeUrgencyHi_NoCap(utts) == Max(0, urgencyReduceHi(utts, Len(utts)) - 2)

analyzeUrgencyHi(utts) == Min(15, Max(0, urgencyReduceHi(utts, Len(utts)) - 2))

\* the forEach of analyzeRebuttal after its first n utterances: objectionCount,
\* the 0-based indices whose utterance incremented rebuttalCount, lastObjectionIndex
RECURSIVE rebuttalScanHi(_, _)
rebuttalScanHi(utts, n) ==
    IF n = 0
    THEN [objectionCount |-> 0, counted |-> {}, lastObjectionIndex |-> -1]
    ELSE LET before == rebuttalScanHi(utts, n - 1)
             index == n - 1
             text == utts[n].transcript
             hasObjection == someIncluded(text, HiObjectionKeywords)
             hasRebuttal == someIncluded(text, HiRebuttalKeywords)
             objectionCount == before.objectionCount + (IF hasObjection THEN 1 ELSE 0)
             lastObjectionIndex == IF hasObjection THEN index ELSE before.lastObjectionIndex
         IN [objectionCount |-> objectionCount,
             counted |-> IF hasRebuttal /\ index > lastObjectionIndex
                         THEN before.counted \cup {index} ELSE before.counted,
             lastObjectionIndex |-> lastObjectionIndex]

analyzeRebuttalHi(utts) ==
    LET scan == rebuttalScanHi(utts, Len(utts))
        objectionCount == scan.objectionCount
        rebuttalCount == Cardinality(scan.counted)
        score == Min(15, (objectionCount * 2) + (rebuttalCount * 3))
    IN IF objectionCount > 0
       THEN Min(15, Max(0, score - (objectionCount - rebuttalCount) * 2))
       ELSE 0

\* sentiment_score in tenths: 0.3 is 3
\* mutant: the base score of the English variant
analyzeEtiquetteHi_Base10(s) ==
    LET baseScore == 10
        sentimentScore == IF s > 3 THEN 7 ELSE IF s > 0 THEN 3 ELSE IF s > -3 THEN -3 ELSE -7
    IN Max(0, Min(15, baseScore + sentimentScore))

analyzeEtiquetteHi(s) ==
    LET baseScore == 8
        sentimentScore == IF s > 3 THEN 7 ELSE IF s > 0 THEN 3 ELSE IF s > -3 THEN -3 ELSE -7
    IN Max(0, Min(15, baseScore + sentimentScore))

analyzeDisclaimerHi(utts) ==
    LET earlyDisclaimer == \E i \in Indices(utts) :
            utts[i].start <= 30 /\ someIncluded(utts[i].transcript, HiDisclaimerKeywords)
    IN IF earlyDisclaimer THEN 5 ELSE 0

\* intent.intent.toLowerCase().includes(word): an intent label is modelled as the
\* record of its exact string and the words its lower-cased form contains
intentIncludesLower(intent, word) == word \in intent.lower

\* mutant: an intent match alone earns the full weight
analyzeDispositionHi_IntentFull(utts, its) ==
    LET intentMatch == \E j \in 1..Len(its) : \/ intentIncludesLower(its[j], "disposition")
                                              \/ intentIncludesLower(its[j], "category")
        hasDisposition ==
            \E i \in Indices(utts) : someIncluded(utts[i].transcript, HiDispositionKeywords)
        hasSpecificDisposition == \E i \in Indices(utts) :
            /\ someIncluded(utts[i].transcript, HiDispositionKeywords)
            /\ someIncluded(utts[i].transcript, HiCausalConnectives)
    IN IF hasSpecificDisposition \/ intentMatch THEN 10 ELSE IF hasDisposition THEN 5 ELSE 0

analyzeDispositionHi(utts, its) ==
    LET hasDisposition ==
            \/ \E i \in Indices(utts) : someIncluded(utts[i].transcript, HiDispositionKeywords)
            \/ \E j \in 1..Len(its) : \/ intentIncludesLower(its[j], "disposition")
                                      \/ intentIncludesLower(its[j], "category")
        hasSpecificDisposition == \E i \in Indices(utts) :
            /\ someIncluded(utts[i].transcript, HiDispositionKeywords)
            /\ someIncluded(utts[i].transcript, HiCausalConnectives)
    IN IF hasSpecificDisposition THEN 10 ELSE IF hasDisposition THEN 5 ELSE 0

\* mutant: the first utterance is examined instead of the last
analyzeClosingHi_First(utts) ==
    IF Len(utts) = 0 THEN 0
    ELSE LET firstUtterance == utts[1]
             hasClosing == someIncluded(firstUtterance.transcript, HiClosingKeywords)
             hasPoliteClosing ==
                 hasClosing /\ someIncluded(firstUtterance.transcript, HiGratitudeKeywords)
         IN IF hasPoliteClosing THEN 5 ELSE 0

analyzeClosingHi(utts) ==
    IF Len(utts) = 0 THEN 0
    ELSE LET lastUtterance == utts[Len(utts)]
             hasClosing == someIncluded(lastUtterance.transcript, HiClosingKeywords)
             hasPoliteClosing ==
                 hasClosing /\ someIncluded(lastUtterance.transcript, HiGratitudeKeywords)
         IN IF hasPoliteClosing THEN 5 ELSE 0

analyzeIdentificationHi(utts) ==
    LET earlyIdentification == \E i \in Indices(utts) :
            utts[i].start <= 60 /\ someIncluded(utts[i].transcript, HiIdKeywords)
    IN IF earlyIdentification THEN 5 ELSE 0

\* mutant: the tape disclosure is looked for in the identification window
analyzeTapeDisclosureHi_Window60(utts) ==
    LET earlyDisclosure == \E i \in Indices(utts) :
            utts[i].start <= 60 /\ someIncluded(utts[i].transcript, HiDisclaimerKeywords)
    IN IF earlyDisclosure THEN 10 ELSE 0

analyzeTapeDisclosureHi(utts) ==
    LET earlyDisclosure == \E i \in Indices(utts) :
            utts[i].start <= 30 /\ someIncluded(utts[i].transcript, HiDisclaimerKeywords)
    IN IF earlyDisclosure THEN 10 ELSE 0

\* mutant: only the call sentiment decides, negative language is ignored
analyzeToneLanguageHi_SentimentOnly(s, utts) ==
    IF s < -3 THEN 0 ELSE IF s < -1 THEN 5 ELSE IF s < 1 THEN 10 ELSE 15

analyzeToneLanguageHi(s, utts) ==
    LET hasNegativeLanguage ==
            \E i \in Indices(utts) : someIncluded(utts[i].transcript, HiNegativeKeywords)
    IN IF hasNegativeLanguage \/ s < -3 THEN 0
       ELSE IF s < -1 THEN 5
       ELSE IF s < 1 THEN 10
       ELSE 15

scoresHi(utts, s, its) ==
    [greeting                 |-> analyzeGreetingHi(utts),
     collectionUrgency        |-> analyzeUrgencyHi(utts),
     rebuttalCustomerHandling |-> analyzeRebuttalHi(utts),
     callEtiquette            |-> analyzeEtiquetteHi(s),
     callDisclaimer           |-> analyzeDisclaimerHi(utts),
     correctDisposition       |-> analyzeDispositionHi(utts, its),
     callClosing              |-> analyzeClosingHi(utts),
     fatalIdentification      |-> analyzeIdentificationHi(utts),
     fatalTapeDiscloser       |-> analyzeTapeDisclosureHi(utts),
     fatalToneLanguage        |-> analyzeToneLanguageHi(s, utts)]

(***************************************************************************)
(* Strings: array.join(separator)                                          *)
(***************************************************************************)
RECURSIVE join(_, _)
join(parts, sep) ==
    IF Len(parts) = 0 THEN ""
    ELSE IF Len(parts) = 1 THEN parts[1]
    ELSE parts[1] \o sep \o join(Tail(parts), sep)

\* a clause list with one more clause pushed when the condition holds
pushIf(parts, cond, clause) == IF cond THEN Append(parts, clause) ELSE parts

(***************************************************************************)
(* Hindi variant: synthesizers                                             *)
(***************************************************************************)
feedbackPartsHi(scores, s) ==
    LET p1 == pushIf(<<>>, scores.collectionUrgency >= 12,
                     "The agent was effective in creating urgency")
        p2 == pushIf(p1, scores.rebuttalCustomerHandling >= 12,
                     "handled objections professionally")
        p3 == pushIf(p2, scores.callEtiquette >= 12, "maintained excellent call etiquette")
        p4 == pushIf(p3, scores.callDisclaimer = 0, "failed to provide disclaimer")
        p5 == pushIf(p4, scores.fatalTapeDiscloser = 0, "missed tape disclosure")
        p6 == pushIf(p5, scores.fatalIdentification = 0, "failed to verify customer identity")
    IN IF s > 3 THEN Append(p6, "maintained a positive tone throughout")
       ELSE IF s < -3 THEN Append(p6, "struggled with maintaining a positive tone")
       ELSE p6

generateOverallFeedbackHi(scores, s) ==
    LET feedbackParts == feedbackPartsHi(scores, s)
    IN "The agent " \o (IF Len(feedbackParts) > 0
                        THEN join(feedbackParts, ", ")
                        ELSE "performed adequately but has room for improvement")

\* topics.sort((a, b) => b.confidence_score - a.confidence_score): stable, in place
RECURSIVE insertTopic(_, _)
insertTopic(sorted, t) ==
    IF Len(sorted) = 0 THEN <<t>>
    ELSE IF sorted[1].confidence_score >= t.confidence_score
         THEN <<sorted[1]>> \o insertTopic(Tail(sorted), t)
         ELSE <<t>> \o sorted

RECURSIVE sortTopics(_, _)
sortTopics(tps, n) ==
    IF n = 0 THEN <<>> ELSE insertTopic(sortTopics(tps, n - 1), tps[n])

\* the topics array as generateObservation leaves it
topicsAfterObservationHi(tps) == IF Len(tps) > 0 THEN sortTopics(tps, Len(tps)) ELSE tps

\* objectionTopics (a Set, in insertion order) after the first n utterances
addOnce(seq, x) == IF \E i \in 1..Len(seq) : seq[i] = x THEN seq ELSE Append(seq, x)

RECURSIVE objectionTopicsHi(_, _)
objectionTopicsHi(utts, n) ==
    IF n = 0 THEN <<>>
    ELSE LET before == objectionTopicsHi(utts, n - 1)
             text == utts[n].transcript
             t1 == IF includes(text, "penalti") \/ includes(text, "jurmana")
                   THEN addOnce(before, "penalty") ELSE before
             t2 == IF includes(text, "pement") \/ includes(text, "bhugtan")
                   THEN addOnce(t1, "payment") ELSE t1
             t3 == IF includes(text, "samay") \/ includes(text, "taim")
                   THEN addOnce(t2, "time") ELSE t2
         IN IF someIncluded(text, HiObjectionKeywords) THEN t3 ELSE before

topicNames(tps) == [i \in 1..Len(tps) |-> tps[i].topic]

observationsHi(utts, tps, s) ==
    LET hasObjections ==
            \E i \in Indices(utts) : someIncluded(utts[i].transcript, HiObjectionKeywords)
        hasRebuttals ==
            \E i \in Indices(utts) : someIncluded(utts[i].transcript, HiRebuttalKeywords)
        topicList == objectionTopicsHi(utts, Len(utts))
        o1 == IF ~hasObjections THEN <<>>
              ELSE IF Len(topicList) > 0
              THEN IF hasRebuttals
                   THEN <<"Customer raised objections about " \o join(topicList, " and ")
                          \o ". Agent managed well">>
                   ELSE <<"Customer raised objections about " \o join(topicList, " and ")
                          \o ". Agent could have handled better">>
              ELSE IF hasRebuttals
                   THEN <<"Customer raised objections which were handled professionally">>
                   ELSE <<"Customer raised objections that could have been handled better">>
        hasDisclosure ==
            \E i \in Indices(utts) : someIncluded(utts[i].transcript, HiDisclaimerKeywords)
        o2 == pushIf(o1, ~hasDisclosure, "Agent missed tape disclosure")
        hasIdentification ==
            \E i \in Indices(utts) : someIncluded(utts[i].transcript, HiIdKeywords)
        o3 == pushIf(o2, ~hasIdentification,
                     "Customer identification was not properly verified")
        sorted == topicsAfterObservationHi(tps)
        mainTopics == topicNames(SubSeq(sorted, 1, Min(2, Len(sorted))))
        topicContext == join(mainTopics, " and ")
        o4 == IF Len(tps) > 0 /\ Len(mainTopics) > 0
              THEN IF s > 3 THEN Append(o3, "Positive discussion about " \o topicContext)
                   ELSE IF s < -3
                   THEN Append(o3, "Difficult conversation regarding " \o topicContext)
                   ELSE Append(o3, "Discussed " \o topicContext)
              ELSE o3
        hasProperClosing ==
            /\ Len(utts) > 0
            /\ someIncluded(utts[Len(utts)].transcript, HiClosingKeywords)
    IN pushIf(o4, ~hasProperClosing, "Call ended without proper closing")

\* mutant: the fallback is dropped
orElse_NoFallback(x, fallback) == x

\* x || fallback for a string x
orElse(x, fallback) == IF x = "" THEN fallback ELSE x

generateObservationHi(utts, tps, s) ==
    orElse(join(observationsHi(utts, tps, s), ". "), "No specific observations available.")

(***************************************************************************)
(* English variant: lexicons and scorers.  The local `sentiment` is the    *)
(* provider's sentiment object or {}: a record that may lack `overall`.    *)
(* A comparison of undefined with a number is false in JavaScript.         *)
(***************************************************************************)
EnUrgencyKeywords == {"urgent", "immediately", "asap", "critical", "important"}

EnObjectionKeywords == {"can't", "won't", "don't", "not possible", "too expensive"}

EnDisclaimerKeywords == {"recording", "recorded", "tape", "monitoring"}

EnClosingKeywords == {"thank", "thanks", "appreciate", "goodbye", "bye"}

EnIdKeywords == {"name", "id", "account", "customer"}

EnNegativeKeywords == {"abuse", "threat", "angry", "rude"}

EnGreetingSeconds == 5

hasOverall(s) == "overall" \in DOMAIN s

overallPositive(s) == hasOverall(s) /\ s.overall > 0

overallNegative(s) == hasOverall(s) /\ s.overall < 0

\* sentiment.overall !== 0
overallNotZero(s) == ~hasOverall(s) \/ s.overall # 0

analyzeGreetingEn(utts) ==
    IF Len(utts) = 0 THEN 0
    ELSE LET firstUtterance == utts[1]
             greetingTime == firstUtterance.start
         IN IF greetingTime <= EnGreetingSeconds THEN 5 ELSE 0

RECURSIVE urgencyReduceEn(_, _)
urgencyReduceEn(utts, n) ==
    IF n = 0 THEN 0
    ELSE urgencyReduceEn(utts, n - 1)
         + (IF someIncluded(utts[n].transcript, EnUrgencyKeywords) THEN 3 ELSE 0)

analyzeUrgencyEn(utts) == Min(15, urgencyReduceEn(utts, Len(utts)))

RECURSIVE rebuttalReduceEn(_, _)
rebuttalReduceEn(utts, n) ==
    IF n = 0 THEN 0
    ELSE rebuttalReduceEn(utts, n - 1)
         + (IF someIncluded(utts[n].transcript, EnObjectionKeywords) THEN 3 ELSE 0)

analyzeRebuttalEn(utts) == Min(15, rebuttalReduceEn(utts, Len(utts)))

analyzeEtiquetteEn(s) ==
    LET baseScore == 10
        sentimentScore == IF overallPositive(s) THEN 4 ELSE 0
    IN Min(15, baseScore + sentimentScore)

\* mutant: utterances.every instead of utterances.some
analyzeDisclaimerEn_Every(utts) ==
    IF \A i \in Indices(utts) : someIncluded(utts[i].transcript, EnDisclaimerKeywords)
    THEN 5 ELSE 0

analyzeDisclaimerEn(utts) ==
    LET hasDisclaimer ==
            \E i \in Indices(utts) : someIncluded(utts[i].transcript, EnDisclaimerKeywords)
    IN IF hasDisclaimer THEN 5 ELSE 0

analyzeDispositionEn(utts, its) ==
    LET hasDisposition == \E j \in 1..Len(its) :
            its[j].intent = "disposition" \/ its[j].intent = "category"
    IN IF hasDisposition THEN 10 ELSE 0

analyzeClosingEn(utts) ==
    IF Len(utts) = 0 THEN 0
    ELSE LET lastUtterance == utts[Len(utts)]
             hasClosing == someIncluded(lastUtterance.transcript, EnClosingKeywords)
         IN IF hasClosing THEN 5 ELSE 0

analyzeIdentificationEn(utts) ==
    LET hasIdentification ==
            \E i \in Indices(utts) : someIncluded(utts[i].transcript, EnIdKeywords)
    IN IF hasIdentification THEN 5 ELSE 0

analyzeTapeDisclosureEn(utts) ==
    LET hasDisclosure ==
            \E i \in Indices(utts) : someIncluded(utts[i].transcript, EnDisclaimerKeywords)
    IN IF hasDisclosure THEN 10 ELSE 0

analyzeToneLanguageEn(s, utts) ==
    LET hasNegativeLanguage ==
            \E i \in Indices(utts) : someIncluded(utts[i].transcript, EnNegativeKeywords)
    IN IF hasNegativeLanguage THEN 0 ELSE 15

scoresEn(utts, s, its) ==
    [greeting                 |-> analyzeGreetingEn(utts),
     collectionUrgency        |-> analyzeUrgencyEn(utts),
     rebuttalCustomerHandling |-> analyzeRebuttalEn(utts),
     callEtiquette            |-> analyzeEtiquetteEn(s),
     callDisclaimer           |-> analyzeDisclaimerEn(utts),
     correctDisposition       |-> analyzeDispositionEn(utts, its),
     callClosing              |-> analyzeClosingEn(utts),
     fatalIdentification      |-> analyzeIdentificationEn(utts),
     fatalTapeDiscloser       |-> analyzeTapeDisclosureEn(utts),
     fatalToneLanguage        |-> analyzeToneLanguageEn(s, utts)]

\* Object.values(scores).reduce((a, b) => a + b, 0)
totalScore(scores) ==
    scores.greeting + scores.collectionUrgency + scores.rebuttalCustomerHandling
    + scores.callEtiquette + scores.callDisclaimer + scores.correctDisposition
    + scores.callClosing + scores.fatalIdentification + scores.fatalTapeDiscloser
    + scores.fatalToneLanguage

\* percentage = totalScore / 100 * 100 is the integer total; toFixed(1) prints it
\* with one decimal
generateOverallFeedbackEn(scores, s, summary) ==
    "Overall score: " \o ToString(totalScore(scores)) \o ".0%. "
    \o orElse(summary, "The call was processed successfully.")
    \o (IF overallNegative(s) THEN " There were some negative sentiments detected." ELSE "")

observationsEn(utts, tps, s) ==
    LET o1 == pushIf(<<>>, Len(tps) > 0,
                     "Main topics discussed: " \o join(topicNames(tps), ", "))
    IN pushIf(o1, overallNotZero(s),
              "Overall sentiment was "
              \o (IF overallPositive(s) THEN "positive" ELSE "negative"))

generateObservationEn(utts, tps, s) ==
    orElse(join(observationsEn(utts, tps, s), ". "), "No specific observations available.")

(***************************************************************************)
(* The POST handler                                                        *)
(***************************************************************************)
NoRequest == [file |-> FALSE, received |-> FALSE]

NoData == [arrived |-> FALSE]

NoResponse == [status |-> 0]

errorResponse(status, message) == [status |-> status, error |-> message]

mockResponse ==
    [status |-> 200,
     scores |-> [greeting |-> 5, collectionUrgency |-> 12, rebuttalCustomerHandling |-> 13,
                 callEtiquette |-> 14, callDisclaimer |-> 0, correctDisposition |-> 10,
                 callClosing |-> 5, fatalIdentification |-> 5, fatalTapeDiscloser |-> 0,
                 fatalToneLanguage |-> 15],
     overallFeedback |->
         "The agent was confident and persuasive, though failed to provide disclaimer.",
     observation |->
         "Customer raised objections about penalty. Agent managed well but missed tape disclosure."]

\* data.results?.channels[0]?.alternatives[0]?.<field> || fallback, for the three
\* shapes of `data`: no results (every field undefined), results without channels
\* (channels[0] throws a TypeError), and a first alternative `alt`
alternative(d) == IF d.shape = "alternative" THEN d.alt ELSE EmptyObject

fieldOr(obj, k, fallback) == IF has(obj, k) THEN obj[k] ELSE fallback

parseTranscript(d) == fieldOr(alternative(d), "transcript", "")

parseUtterances(d) == fieldOr(alternative(d), "utterances", <<>>)

parseTopics(d) == fieldOr(alternative(d), "topics", <<>>)

parseIntents(d) == fieldOr(alternative(d), "intents", <<>>)

parseSummary(d) == fieldOr(alternative(d), "summarize", "")

\* Hindi: { sentiment: ... || 'neutral', sentiment_score: ... || 0 }
parseSentimentHi(d) ==
    [sentiment |-> fieldOr(alternative(d), "sentiment", "neutral"),
     sentiment_score |-> fieldOr(alternative(d), "sentiment_score", 0)]

\* English: alternatives[0]?.sentiment || {}
parseSentimentEn(d) == fieldOr(alternative(d), "sentiment", EmptyObject)

parseSentiment(v, d) == IF v = "hi" THEN parseSentimentHi(d) ELSE parseSentimentEn(d)

\* utterance.transcript.toLowerCase() throws a TypeError on an utterance without
\* a transcript; analyzeUrgency reads every utterance in both variants
scoringThrows(utts) == \E i \in Indices(utts) : ~has(utts[i], "transcript")

successResponse(v, d) ==
    LET utts == parseUtterances(d)
        s == parseSentiment(v, d)
        tps == parseTopics(d)
        its == parseIntents(d)
    IN IF v = "hi"
       THEN LET scores == scoresHi(utts, s.sentiment_score, its)
            IN [status |-> 200,
                scores |-> scores,
                overallFeedback |-> generateOverallFeedbackHi(scores, s.sentiment_score),
                observation |-> generateObservationHi(utts, tps, s.sentiment_score),
                parameters |-> parameters]
       ELSE LET scores == scoresEn(utts, s, its)
            IN [status |-> 200,
                scores |-> scores,
                overallFeedback |-> generateOverallFeedbackEn(scores, s, parseSummary(d)),
                observation |-> generateObservationEn(utts, tps, s),
                parameters |-> parameters]

\* mutant: an alternative lacking utterances, topics, intents or sentiment is rejected
respond_Validating(v, d) ==
    IF d.shape = "noChannels" THEN errorResponse(500, "Processing failed")
    ELSE IF parseTranscript(d) = "" THEN errorResponse(500, "Transcription failed")
    ELSE IF \/ ~has(alternative(d), "utterances") \/ ~has(alternative(d), "topics")
            \/ ~has(alternative(d), "intents")
            \/ ~has(alternative(d), IF v = "hi" THEN "sentiment_score" ELSE "sentiment")
         THEN errorResponse(500, "Processing failed")
    ELSE IF scoringThrows(parseUtterances(d)) THEN errorResponse(500, "Processing failed")
    ELSE successResponse(v, d)

\* what the try block returns for the provider's JSON d
respond(v, d) ==
    IF d.shape = "noChannels" THEN errorResponse(500, "Processing failed")
    ELSE IF parseTranscript(d) = "" THEN errorResponse(500, "Transcription failed")
    ELSE IF scoringThrows(parseUtterances(d)) THEN errorResponse(500, "Processing failed")
    ELSE successResponse(v, d)

\* the scorers and synthesizers ran to the end
scored(v, d) ==
    d.shape # "noChannels" /\ parseTranscript(d) # "" /\ ~scoringThrows(parseUtterances(d))

(***************************************************************************)
(* The provider's possible outputs.  Utterances are in speaking order, so  *)
(* their start times do not decrease.  The outputs cover, per variant:     *)
(* long transcripts for the two accumulating scans, short transcripts over *)
(* the start-time thresholds for the position and time-window scorers, and *)
(* short transcripts with every sentiment, topic list and absent field.    *)
(***************************************************************************)
utterance(text, start) == [transcript |-> text, start |-> start]

chronological(utts) == \A i \in 1..(Len(utts) - 1) : utts[i].start <= utts[i + 1].start

\* the transcripts of n utterances over the given texts and start times
TranscriptsOfLen(texts, times, n) ==
    {utts \in [1..n -> {utterance(text, start) : text \in texts, start \in times}] :
        chronological(utts)}

Option(S) == {{}} \cup {{x} : x \in S}

Some(S) == {{x} : x \in S}

withField(obj, k, xs) == IF xs = {} THEN obj ELSE (k :> (CHOOSE x \in xs : TRUE)) @@ obj

\* texts (term sets, closed under substring) of the Hindi variant
HiUrgencyTexts == {{}, {"zaroori", "turant"}, {"?", "kab"}, {"zaroori", "?", "kab", "aaj"}}

HiRebuttalTexts == {{}, {"nahin"}, {"lekin"}, {"nahin", "lekin"}}

\* texts of the long objection/rebuttal transcripts
HiLongRebuttalTexts == {{"nahin"}, {"lekin"}}

HiOpeningTexts == {{}, {"namaste"}}

HiWindowTexts ==
    {{}, {"rikording", "rikord"}, {"naam"}, {"dhanyavad"}, {"alvida"}, {"shreni"},
     {"karan"}, {"samadhan"}}

HiSignalTexts ==
    {{}, {"gaali"}, {"nahin", "penalti"}, {"nahin", "samay", "lekin"},
     {"rikording", "rikord", "naam", "dhanyavad"}}

\* texts of the English variant; "hello" is in no lexicon of the variant
EnScanTexts == {{}, {"urgent"}, {"can't"}, {"urgent", "can't"}}

EnOpeningTexts == {{}, {"hello"}}

EnWindowTexts == {{}, {"recording"}, {"name"}, {"thank"}, {"bye"}}

EnSignalTexts == {{}, {"rude"}, {"recording", "name", "thank"}}

OpeningTimes == {0, 2, 3, 4, 5, 8}

WindowTimes == {30, 31, 60, 61}

SentimentScores == (-MaxSent)..MaxSent

TopicPool ==
    {[topic |-> "penalty", confidence_score |-> 5], [topic |-> "emi", confidence_score |-> 7],
     [topic |-> "loan", confidence_score |-> 9]}

distinctTopics(tps) == \A i, j \in 1..Len(tps) : tps[i].topic = tps[j].topic => i = j

TopicLists ==
    {tps \in UNION {[1..n -> TopicPool] : n \in 0..MaxTopics} : distinctTopics(tps)}

IntentPool ==
    {[intent |-> "disposition", lower |-> {"disposition"}],
     [intent |-> "Category Update", lower |-> {"category"}],
     [intent |-> "payment", lower |-> {}]}

IntentLists == {<<>>} \cup {<<it>> : it \in IntentPool}

\* an utterance list holding an utterance without a transcript
MalformedUtterances == {<<[start |-> 0]>>}

\* a first alternative from optional fields (each a set of at most one value)
alt(v, transcript, utts, score, tps, its) ==
    LET a1 == withField(EmptyObject, "transcript", transcript)
        a2 == withField(a1, "utterances", utts)
        a3 == IF v = "hi" THEN withField(a2, "sentiment_score", score)
              ELSE withField(a2, "sentiment", {[overall |-> x] : x \in score})
        a4 == withField(a3, "topics", tps)
    IN withField(a4, "intents", its)

plainAlt(v, utts, its) == alt(v, {"text"}, {utts}, {0}, {<<>>}, {its})

ScanTexts(v) ==
    IF v = "hi" THEN {HiUrgencyTexts, HiRebuttalTexts, HiLongRebuttalTexts} ELSE {EnScanTexts}

\* the longest transcript delivered over a scan's texts
ScanLen(texts) == IF texts = HiLongRebuttalTexts THEN MaxRebuttal ELSE MaxScan

OpeningTexts(v) == IF v = "hi" THEN HiOpeningTexts ELSE EnOpeningTexts

WindowTexts(v) == IF v = "hi" THEN HiWindowTexts ELSE EnWindowTexts

SignalTexts(v) == IF v = "hi" THEN HiSignalTexts ELSE EnSignalTexts

output(a) == [arrived |-> TRUE, shape |-> "alternative", alt |-> a]

\* outputs with an absent or empty transcript, without results or channels, and
\* (English) with an empty sentiment object or a summary
SpecialOutputs(v) ==
    {output(alt(v, transcript, {<<>>}, {0}, {<<>>}, {<<>>})) : transcript \in Option({""})}
    \cup {[arrived |-> TRUE, shape |-> "noResults"], [arrived |-> TRUE, shape |-> "noChannels"]}
    \cup (IF v = "en"
          THEN {output(withField(plainAlt(v, <<>>, <<>>), "sentiment", {EmptyObject})),
                output(withField(plainAlt(v, <<>>, <<>>), "summarize",
                                 {"Agent called about a loan."}))}
          ELSE {})

(***************************************************************************)
(* The page (Home, src/unnamed/part_002).  A file is its name; null is     *)
(* "none".  The JSON the route returns for an uploaded file is modelled by *)
(* the file it was computed from.                                          *)
(***************************************************************************)
Files == {"a.mp3", "b.wav", "c.mpeg", "notes.txt"}

\* file.type
type(file) ==
    IF file = "a.mp3" THEN "audio/mp3"
    ELSE IF file = "b.wav" THEN "audio/wav"
    ELSE IF file = "c.mpeg" THEN "audio/mpeg"
    ELSE "text/plain"

\* useState<FeedbackResponse | null>(null)
NoFeedback == [of |-> "none"]

\* the body of the route's 200 response to the upload of a file
analysis(file) == [of |-> file]

\* no handleProcess call is suspended
NoProcess == [stage |-> "none", file |-> "none"]

(***************************************************************************)
(* Actions                                                                 *)
(***************************************************************************)
Init ==
    /\ variant \in {"hi", "en"}
    /\ apiKey \in BOOLEAN
    /\ request = NoRequest
    /\ pc = "idle"
    /\ providerCalls = 0
    /\ data = NoData
    /\ utterances = <<>>
    /\ sentiment = EmptyObject
    /\ topics = <<>>
    /\ intents = <<>>
    /\ response = NoResponse
    /\ audioFile = "none"
    /\ audioUrl = 0
    /\ objectUrls = {}
    /\ loading = FALSE
    /\ feedback = NoFeedback
    /\ process = NoProcess

\* mutant: the API-key check comes before the file check
POST_KeyFirst(file) ==
    /\ pc = "idle"
    /\ request' = [file |-> file, received |-> TRUE]
    /\ IF ~apiKey
       THEN /\ response' = mockResponse
            /\ pc' = "done"
            /\ UNCHANGED providerCalls
       ELSE IF ~file
       THEN /\ response' = errorResponse(400, "No file uploaded")
            /\ pc' = "done"
            /\ UNCHANGED providerCalls
       ELSE /\ providerCalls' = providerCalls + 1
            /\ pc' = "fetching"
            /\ UNCHANGED response
    /\ UNCHANGED <<variant, apiKey, data, utterances, sentiment, topics, intents>>
    /\ UNCHANGED uiVars

\* POST up to the fetch: the file check, the API-key check, the provider call
POST(file) ==
    /\ pc = "idle"
    /\ request' = [file |-> file, received |-> TRUE]
    /\ IF ~file
       THEN /\ response' = errorResponse(400, "No file uploaded")
            /\ pc' = "done"
            /\ UNCHANGED providerCalls
       ELSE IF ~apiKey
       THEN /\ response' = mockResponse
            /\ pc' = "done"
            /\ UNCHANGED providerCalls
       ELSE /\ providerCalls' = providerCalls + 1
            /\ pc' = "fetching"
            /\ UNCHANGED response
    /\ UNCHANGED <<variant, apiKey, data, utterances, sentiment, topics, intents>>
    /\ UNCHANGED uiVars

\* reading the file or the fetch rejects, the response is not OK, or its body is
\* not JSON: the catch block answers
ProviderFails ==
    /\ pc = "fetching"
    /\ response' = errorResponse(500, "Processing failed")
    /\ pc' = "done"
    /\ UNCHANGED <<variant, apiKey, request, providerCalls, data, utterances, sentiment,
                   topics, intents>>
    /\ UNCHANGED uiVars

\* the provider answers with JSON d: parsing, scoring and synthesis, the response
Deliver(d) ==
    /\ data' = d
    /\ response' = respond(variant, d)
    /\ pc' = "done"
    /\ IF d.shape = "noChannels"
       THEN UNCHANGED <<utterances, sentiment, topics, intents>>
       ELSE /\ utterances' = parseUtterances(d)
            /\ sentiment' = parseSentiment(variant, d)
            /\ intents' = parseIntents(d)
            /\ topics' = IF variant = "hi" /\ scored(variant, d)
                         THEN topicsAfterObservationHi(parseTopics(d))
                         ELSE parseTopics(d)
    /\ UNCHANGED <<variant, apiKey, request, providerCalls, uiVars>>

ProviderResponds ==
    /\ pc = "fetching"
    /\ \/ \E texts \in ScanTexts(variant) :
              \E n \in 0..ScanLen(texts) :
                  \E utts \in TranscriptsOfLen(texts, {0}, n) :
                      Deliver(output(plainAlt(variant, utts, <<>>)))
       \/ \E n \in 0..MaxShort :
              \E utts \in TranscriptsOfLen(OpeningTexts(variant), OpeningTimes, n) :
                  Deliver(output(plainAlt(variant, utts, <<>>)))
       \/ \E n \in 0..MaxShort, its \in IntentLists :
              \E utts \in TranscriptsOfLen(WindowTexts(variant), WindowTimes, n) :
                  Deliver(output(plainAlt(variant, utts, its)))
       \/ \E n \in 0..MaxSignal, score \in Option(SentimentScores), tps \in Option(TopicLists),
             its \in Option({<<>>}) :
              \E utts \in TranscriptsOfLen(SignalTexts(variant), {0}, n) :
                  Deliver(output(alt(variant, {"text"}, {utts}, score, tps, its)))
       \/ \E utts \in Option(MalformedUtterances), score \in Option(SentimentScores),
             tps \in Option(TopicLists), its \in Option({<<>>}) :
              Deliver(output(alt(variant, {"text"}, utts, score, tps, its)))
       \/ \E d \in SpecialOutputs(variant) : Deliver(d)

Next ==
    \/ \E file \in BOOLEAN : POST(file)
    \/ ProviderFails
    \/ ProviderResponds

Spec == Init /\ [][Next]_vars

(***************************************************************************)
(* Actions of the page.  handleProcess is suspended at its two awaits; the *)
(* steps after them run when the fetch or the body read settles, and other *)
(* event handlers may run in between.                                      *)
(***************************************************************************)
\* the common body of handleFileChange and handleDrop for the event's first file
\* ("none": the event carries no file)
selectFile(file) ==
    IF file # "none" /\ type(file) \in {"audio/mp3", "audio/wav", "audio/mpeg"}
    THEN /\ audioUrl < MaxSelections
         /\ audioFile' = file
         /\ audioUrl' = audioUrl + 1
         /\ objectUrls' = (objectUrls \ {audioUrl}) \cup {audioUrl + 1}
         /\ feedback' = NoFeedback
         /\ UNCHANGED <<loading, process>>
    ELSE UNCHANGED uiVars

handleFileChange(file) ==
    /\ selectFile(file)
    /\ UNCHANGED <<variant, apiKey, request, pc, providerCalls, data, utterances, sentiment,
                   topics, intents, response>>

handleDrop(file) ==
    /\ selectFile(file)
    /\ UNCHANGED <<variant, apiKey, request, pc, providerCalls, data, utterances, sentiment,
                   topics, intents, response>>

\* a click on the Process button (enabled unless !audioFile || loading), up to
\* the await of fetch
handleProcess ==
    /\ audioFile # "none" /\ ~loading
    /\ loading' = TRUE
    /\ feedback' = NoFeedback
    /\ process' = [stage |-> "fetch", file |-> audioFile]
    /\ UNCHANGED <<audioFile, audioUrl, objectUrls>>
    /\ UNCHANGED <<variant, apiKey, request, pc, providerCalls, data, utterances, sentiment,
                   topics, intents, response>>

\* the fetch resolves with a response: OK (status 200) or not (400, 500)
fetchResolves(ok) ==
    /\ process.stage = "fetch"
    /\ IF ok
       THEN /\ process' = [process EXCEPT !.stage = "json"]
            /\ UNCHANGED <<loading, feedback>>
       ELSE /\ feedback' = NoFeedback
            /\ loading' = FALSE
            /\ process' = NoProcess
    /\ UNCHANGED <<audioFile, audioUrl, objectUrls>>
    /\ UNCHANGED <<variant, apiKey, request, pc, providerCalls, data, utterances, sentiment,
                   topics, intents, response>>

\* the fetch rejects (the request fails): handleProcess has no catch or finally,
\* so the call ends there
fetchRejects ==
    /\ process.stage = "fetch"
    /\ process' = NoProcess
    /\ UNCHANGED <<audioFile, audioUrl, objectUrls, loading, feedback>>
    /\ UNCHANGED <<variant, apiKey, request, pc, providerCalls, data, utterances, sentiment,
                   topics, intents, response>>

\* res.json() resolves with the analysis of the uploaded file
jsonResolves ==
    /\ process.stage = "json"
    /\ feedback' = analysis(process.file)
    /\ loading' = FALSE
    /\ process' = NoProcess
    /\ UNCHANGED <<audioFile, audioUrl, objectUrls>>
    /\ UNCHANGED <<variant, apiKey, request, pc, providerCalls, data, utterances, sentiment,
                   topics, intents, response>>

\* res.json() rejects (the body cannot be read or parsed): the call ends there
jsonRejects ==
    /\ process.stage = "json"
    /\ process' = NoProcess
    /\ UNCHANGED <<audioFile, audioUrl, objectUrls, loading, feedback>>
    /\ UNCHANGED <<variant, apiKey, request, pc, providerCalls, data, utterances, sentiment,
                   topics, intents, response>>

\* a pending fetch or body read settles
settles ==
    \/ \E ok \in BOOLEAN : fetchResolves(ok)
    \/ fetchRejects
    \/ jsonResolves
    \/ jsonRejects

NextUI ==
    \/ \E file \in Files \cup {"none"} : handleFileChange(file)
    \/ \E file \in Files \cup {"none"} : handleDrop(file)
    \/ handleProcess
    \/ \E ok \in BOOLEAN : fetchResolves(ok)
    \/ fetchRejects
    \/ jsonResolves
    \/ jsonRejects

\* every promise the page awaits settles
SpecUI == Init /\ [][NextUI]_vars /\ WF_vars(settles)

(***************************************************************************)
(* Properties                                                              *)
(***************************************************************************)
\* the handler answered with a scorecard computed by the analyze* functions
Returned == pc = "done" /\ data.arrived /\ response.status = 200

\* the provider's first alternative carries a transcript text
TranscriptPresent ==
    pc = "done" /\ data.arrived /\ data.shape = "alternative"
    /\ has(data.alt, "transcript") /\ data.alt.transcript # ""

\* the call sentiment score the scorers read, where it is a number
HasScore == IF variant = "hi" THEN TRUE ELSE has(sentiment, "overall")

Score == IF variant = "hi" THEN sentiment.sentiment_score ELSE sentiment.overall

NegativeKeywords == IF variant = "hi" THEN HiNegativeKeywords ELSE EnNegativeKeywords

GreetingTerms == IF variant = "hi" THEN HiGreetingKeywords ELSE {"hello"}

textHas(i, keywords) == utterances[i].transcript \cap keywords # {}

Fallback == "No specific observations available."

\* C1: every returned score lies between 0 and the weight of its parameter, in
\* both variants, and the ten registry weights sum to 100.
C1_ScoresWithinWeights ==
    /\ SumWeights(Len(parameters)) = 100
    /\ {parameters[i].key : i \in 1..Len(parameters)} = ParameterKeys
    /\ Returned => \A k \in ParameterKeys :
                       0 <= response.scores[k] /\ response.scores[k] <= Weight(k)

\* C1 witness: a Hindi transcript whose raw urgency total minus the penalty exceeds 15
C1_Witness ==
    /\ Returned /\ variant = "hi"
    /\ Cardinality({i \in Indices(utterances) :
                       textHas(i, HiUrgencyKeywords) /\ textHas(i, HiTimeReferences)
                       /\ textHas(i, HiQuestionTokens)}) >= 5
    /\ response.scores.collectionUrgency = 15

\* C2 (as claimed): every PASS_FAIL parameter is scored 0 or exactly its weight.
C2_PassFailOnlyZeroOrWeight ==
    Returned => \A k \in ParameterKeys :
                    InputType(k) = "PASS_FAIL" => response.scores[k] \in {0, Weight(k)}

\* C3 (as claimed): in the Hindi analyzeRebuttal, for a transcript with an
\* objection, a rebuttal utterance is counted only if an objection utterance
\* precedes it (one that comes before every objection is not counted), and every
\* rebuttal utterance that comes after the most recent objection is counted.
C3_RebuttalCountedOnlyAfterObjection ==
    (Returned /\ variant = "hi") =>
        LET counted == rebuttalScanHi(utterances, Len(utterances)).counted
            objectionAt(i) == textHas(i + 1, HiObjectionKeywords)
            rebuttalAt(i) == textHas(i + 1, HiRebuttalKeywords)
            index == 0..(Len(utterances) - 1)
        IN (\E j \in index : objectionAt(j)) =>
              /\ \A i \in counted : \E j \in index : j < i /\ objectionAt(j)
              /\ \A i \in index :
                     (rebuttalAt(i) /\ ~objectionAt(i)
                      /\ \E j \in index : j < i /\ objectionAt(j)) => i \in counted

\* C4: an utterance with a negative-language term forces fatalToneLanguage to 0
\* whatever the call sentiment score, in both variants.
C4_NegativeLanguageForcesZero ==
    (Returned /\ \E i \in Indices(utterances) : textHas(i, NegativeKeywords))
        => response.scores.fatalToneLanguage = 0

\* C4 witness: negative language in a call whose sentiment score is above 0.3
C4_Witness ==
    /\ Returned /\ variant = "hi"
    /\ \E i \in Indices(utterances) : textHas(i, HiNegativeKeywords)
    /\ sentiment.sentiment_score > 3
    /\ response.scores.fatalToneLanguage = 0

UtteranceBasedKeys ==
    {"greeting", "collectionUrgency", "rebuttalCustomerHandling", "callDisclaimer",
     "callClosing", "fatalIdentification", "fatalTapeDiscloser"}

\* C5: with a transcript text but zero utterances nothing raises (the handler
\* answers 200, not through its catch block) and every utterance-based scorer
\* returns 0, in both variants.
C5_EmptyUtterancesScoreZero ==
    (TranscriptPresent /\ Len(utterances) = 0) =>
        /\ response.status = 200
        /\ \A k \in UtteranceBasedKeys : response.scores[k] = 0

\* C5 witness: the provider sent an empty utterance list and the scorecard came back
C5_Witness ==
    /\ TranscriptPresent /\ has(data.alt, "utterances") /\ Len(utterances) = 0
    /\ variant = "en" /\ response.status = 200 /\ response.scores.callDisclaimer = 0

\* C6 (as claimed): with zero topics and sentiment score 0 the observation is the
\* fallback string, whatever the utterances, in both variants.
C6_FallbackForAnyUtterances ==
    (Returned /\ Len(topics) = 0 /\ HasScore /\ Score = 0) => response.observation = Fallback

\* C6 (amended): with zero topics and sentiment score 0, the English observation is
\* the fallback string whatever the utterances; the Hindi observation is the
\* fallback string exactly when no utterance has an objection term, some utterance
\* has a disclosure term, some utterance has an identification term and the last
\* utterance has a closing term.
C6_FallbackAmended ==
    (Returned /\ Len(topics) = 0 /\ HasScore /\ Score = 0) =>
        IF variant = "en" THEN response.observation = Fallback
        ELSE response.observation = Fallback <=>
                /\ ~\E i \in Indices(utterances) : textHas(i, HiObjectionKeywords)
                /\ \E i \in Indices(utterances) : textHas(i, HiDisclaimerKeywords)
                /\ \E i \in Indices(utterances) : textHas(i, HiIdKeywords)
                /\ Len(utterances) > 0 /\ textHas(Len(utterances), HiClosingKeywords)

\* C6 witness: a Hindi call with utterances that gets the fallback observation
C6_Witness ==
    /\ Returned /\ variant = "hi" /\ Len(topics) = 0 /\ Score = 0
    /\ Len(utterances) > 0 /\ response.observation = Fallback

\* the provider's utterance list holds an utterance without a transcript
MalformedUtterance ==
    /\ has(data.alt, "utterances")
    /\ \E i \in Indices(data.alt.utterances) : ~has(data.alt.utterances[i], "transcript")

\* the try block ended in an error: the provider failed, the JSON lacked channels,
\* the transcript was empty or an utterance had no transcript
EngineFailure ==
    \/ ~data.arrived
    \/ data.shape = "noChannels"
    \/ data.shape = "noResults"
    \/ ~has(data.alt, "transcript") \/ data.alt.transcript = ""
    \/ MalformedUtterance

\* C7: a request without a file is answered 400 without any provider call, whether
\* or not the API key is set; with a file and a key a provider or engine failure or
\* an empty transcript is answered 500; every other request is answered 200 with a
\* scores object of exactly the ten parameter keys.
C7_OutcomeClassified ==
    /\ pc # "done" => response = NoResponse
    /\ ~request.file => providerCalls = 0
    /\ pc = "done" =>
          IF ~request.file THEN response.status = 400 /\ ~has(response, "scores")
          ELSE IF apiKey /\ EngineFailure
          THEN response.status = 500 /\ ~has(response, "scores")
          ELSE response.status = 200 /\ DOMAIN response.scores = ParameterKeys

\* C7 witness: scoring threw on an utterance without a transcript and the answer
\* is 500 without scores
C7_Witness ==
    /\ pc = "done" /\ request.file /\ apiKey /\ data.arrived /\ data.shape = "alternative"
    /\ has(data.alt, "transcript") /\ MalformedUtterance
    /\ response.status = 500

C9_GreetingWithinFiveSeconds ==
    (Returned /\ Len(utterances) > 0 /\ textHas(1, GreetingTerms)
     /\ utterances[1].start >= 0 /\ utterances[1].start <= 5)
        => response.scores.greeting = 5

SentimentKey == IF variant = "hi" THEN "sentiment_score" ELSE "sentiment"

FieldMissing ==
    \/ ~has(data.alt, "utterances") \/ ~has(data.alt, "topics")
    \/ ~has(data.alt, "intents") \/ ~has(data.alt, SentimentKey)

ObjectionsCounted == rebuttalScanHi(utterances, Len(utterances)).objectionCount

RebuttalsCounted == Cardinality(rebuttalScanHi(utterances, Len(utterances)).counted)

\* C11 (as claimed): the Hindi rebuttal score for o >= 1 counted objections and r
\* counted rebuttals is clamp(2*o + 3*r - 2*(o - r), 0, 15), the penalty being
\* taken off the unclamped raw total; with no objection the score is 0.
C11_RebuttalSingleClamp ==
    (Returned /\ variant = "hi") =>
        response.scores.rebuttalCustomerHandling =
            IF ObjectionsCounted >= 1
            THEN Min(15, Max(0, (2 * ObjectionsCounted) + (3 * RebuttalsCounted)
                                - (2 * (ObjectionsCounted - RebuttalsCounted))))
            ELSE 0

\* the disposition lexicon and the causal connectives of the deployed variant; the
\* English variant has neither
DispositionTerms == IF variant = "hi" THEN HiDispositionKeywords ELSE {}

CausalTerms == IF variant = "hi" THEN HiCausalConnectives ELSE {}

SpecificDisposition ==
    \E i \in Indices(utterances) : textHas(i, DispositionTerms) /\ textHas(i, CausalTerms)

DispositionMentioned == \E i \in Indices(utterances) : textHas(i, DispositionTerms)

\* an intent label whose lower-cased form contains "disposition" or "category"
IntentPatternMatch ==
    \E j \in 1..Len(intents) : intents[j].lower \cap {"disposition", "category"} # {}

\* an intent label that is exactly "disposition" or "category"
IntentExactMatch == \E j \in 1..Len(intents) : intents[j].intent \in {"disposition", "category"}

\* C12 (as claimed): in both variants the disposition score is 10 only if one
\* utterance holds a disposition term together with a causal connective, 5 if a
\* disposition term appears without one or only an intent label matches, else 0.
C12_DispositionThreeTiered ==
    Returned =>
        response.scores.correctDisposition =
            IF SpecificDisposition THEN 10
            ELSE IF DispositionMentioned \/ IntentPatternMatch THEN 5
            ELSE 0

\* C12 (amended): the three tiers are those of the Hindi variant only.  The
\* English variant ignores the utterances and has two tiers: 10 if some intent
\* label is exactly "disposition" or "category", else 0.
C12_DispositionAmended ==
    Returned =>
        IF variant = "hi"
        THEN /\ response.scores.correctDisposition = 10 <=> SpecificDisposition
             /\ response.scores.correctDisposition = 5 <=>
                   ~SpecificDisposition /\ (DispositionMentioned \/ IntentPatternMatch)
             /\ response.scores.correctDisposition \in {0, 5, 10}
        ELSE /\ response.scores.correctDisposition = 10 <=> IntentExactMatch
             /\ response.scores.correctDisposition \in {0, 10}

\* C12 witness: a Hindi transcript without a disposition term whose intent label
\* matches the category pattern earns the half weight
C12_Witness ==
    /\ Returned /\ variant = "hi" /\ Len(utterances) > 0
    /\ ~DispositionMentioned /\ IntentPatternMatch
    /\ response.scores.correctDisposition = 5

\* the thank-you family of the deployed variant's closing lexicon; the rest of the
\* lexicon (goodbye, bye and their Hindi counterparts) is not gratitude
GratitudeTerms ==
    IF variant = "hi" THEN HiGratitudeKeywords ELSE {"thank", "thanks", "appreciate"}

\* C13 (as claimed): in both variants the closing score is 5 if and only if the
\* last utterance contains a gratitude term; a last utterance with only a
\* goodbye/bye word scores 0, and gratitude in an earlier utterance earns nothing.
C13_ClosingNeedsGratitude ==
    Returned =>
        /\ response.scores.callClosing \in {0, 5}
        /\ response.scores.callClosing = 5 <=>
              Len(utterances) > 0 /\ textHas(Len(utterances), GratitudeTerms)

(***************************************************************************)
(* Frame of scoring and synthesis                                          *)
(***************************************************************************)
\* C14 (as claimed): scoring and synthesis are pure: once the ten scorers and the
\* two synthesizers have run, the utterances, the topics (order included), the
\* intents and the call sentiment are what was parsed from the provider's output.
C14_ScoringLeavesInputsUnchanged ==
    Returned =>
        /\ utterances = parseUtterances(data)
        /\ topics = parseTopics(data)
        /\ intents = parseIntents(data)
        /\ sentiment = parseSentiment(variant, data)

(***************************************************************************)
(* Collection urgency                                                      *)
(***************************************************************************)
\* S of the Hindi variant over the first n utterances, counted per utterance
UrgencySum(n) ==
    (2 * Cardinality({i \in 1..n : textHas(i, HiUrgencyKeywords)}))
    + Cardinality({i \in 1..n : textHas(i, {"?"}) /\ textHas(i, HiQuestionTokens)})
    + Cardinality({i \in 1..n : textHas(i, HiTimeReferences)})

\* the urgency score the deployed variant computes for a transcript
analyzeUrgency(utts) == IF variant = "hi" THEN analyzeUrgencyHi(utts) ELSE analyzeUrgencyEn(utts)

\* C15: the Hindi urgency score is clamp(S - 2, 0, 15), S adding per utterance 2
\* for an urgency term, 1 for '?' with a why/when/how token and 1 for a time
\* reference; the English score is min(15, 3 * utterances with an urgency term);
\* in both the score of a transcript is at least the score of each of its prefixes.
C15_UrgencyPerUtterance ==
    Returned =>
        /\ response.scores.collectionUrgency =
              IF variant = "hi"
              THEN Min(15, Max(0, UrgencySum(Len(utterances)) - 2))
              ELSE Min(15, 3 * Cardinality({i \in Indices(utterances) :
                                               textHas(i, EnUrgencyKeywords)}))
        /\ \A n \in 0..Len(utterances) :
              analyzeUrgency(SubSeq(utterances, 1, n)) <= response.scores.collectionUrgency

\* C15 witness: a Hindi transcript with an utterance holding two urgency terms,
\* scored strictly inside the clamp and above its prefix without the last utterance
C15_Witness ==
    /\ Returned /\ variant = "hi" /\ Len(utterances) >= 3
    /\ \E i \in Indices(utterances) : {"zaroori", "turant"} \subseteq utterances[i].transcript
    /\ response.scores.collectionUrgency = UrgencySum(Len(utterances)) - 2
    /\ response.scores.collectionUrgency < 15
    /\ analyzeUrgency(SubSeq(utterances, 1, Len(utterances) - 1))
          < response.scores.collectionUrgency

(***************************************************************************)
(* Consistency of the Hindi feedback and observation with the scorecard    *)
(***************************************************************************)
\* the clauses of the returned Hindi feedback: the feedback is "The agent "
\* followed by these clauses joined with ", "
FeedbackClauses == feedbackPartsHi(response.scores, Score)

FeedbackIsItsClauses ==
    Len(FeedbackClauses) > 0 /\ response.overallFeedback = "The agent " \o join(FeedbackClauses, ", ")

inFeedback(clause) ==
    FeedbackIsItsClauses /\ \E i \in 1..Len(FeedbackClauses) : FeedbackClauses[i] = clause

DisclaimerKeywords == IF variant = "hi" THEN HiDisclaimerKeywords ELSE EnDisclaimerKeywords

\* C16: in both variants callDisclaimer is 5 exactly when fatalTapeDiscloser is 10
\* and 0 exactly when it is 0; in the Hindi feedback "failed to provide
\* disclaimer" and "missed tape disclosure" appear together or not at all.
C16_DisclaimerMatchesTapeDisclosure ==
    Returned =>
        /\ response.scores.callDisclaimer = 5 <=> response.scores.fatalTapeDiscloser = 10
        /\ response.scores.callDisclaimer = 0 <=> response.scores.fatalTapeDiscloser = 0
        /\ variant = "hi" =>
              (inFeedback("failed to provide disclaimer") <=> inFeedback("missed tape disclosure"))

\* C16 witness: a Hindi transcript whose only disclosure term is spoken after the
\* 30-second window but within 60 seconds: both scores 0, both clauses emitted
C16_Witness ==
    /\ Returned /\ variant = "hi"
    /\ \E i \in Indices(utterances) :
           textHas(i, DisclaimerKeywords) /\ utterances[i].start > 30 /\ utterances[i].start <= 60
    /\ response.scores.callDisclaimer = 0 /\ response.scores.fatalTapeDiscloser = 0
    /\ inFeedback("failed to provide disclaimer") /\ inFeedback("missed tape disclosure")

\* C17: the Hindi feedback says "maintained excellent call etiquette" exactly when
\* it says "maintained a positive tone throughout", both exactly when the
\* sentiment score exceeds 0.3; when it says "struggled with maintaining a
\* positive tone", fatalToneLanguage is 0 and callEtiquette is 1.
C17_EtiquetteFollowsTone ==
    (Returned /\ variant = "hi") =>
        /\ inFeedback("maintained excellent call etiquette") <=> Score > 3
        /\ inFeedback("maintained a positive tone throughout") <=> Score > 3
        /\ inFeedback("struggled with maintaining a positive tone") =>
              /\ response.scores.fatalToneLanguage = 0
              /\ response.scores.callEtiquette = 1

\* C17 witness: Hindi feedback of a call with sentiment below -0.3 that carries
\* the "struggled" clause and neither of the two positive clauses
C17_Witness ==
    /\ Returned /\ variant = "hi" /\ Score < -3 /\ Len(utterances) > 0
    /\ inFeedback("struggled with maintaining a positive tone")
    /\ ~inFeedback("maintained excellent call etiquette")
    /\ response.scores.callEtiquette = 1

\* the clauses of the Hindi observation for the transcript, topics and sentiment
\* of this request; the returned observation is these clauses joined with ". "
ObservationClauses == observationsHi(utterances, topics, Score)

among(clauses, clause) == \E i \in 1..Len(clauses) : clauses[i] = clause

inObservation(clause) ==
    LET clauses == ObservationClauses
    IN /\ Len(clauses) > 0
       /\ response.observation = join(clauses, ". ")
       /\ among(clauses, clause)

\* C18: in the Hindi variant, an observation with "Agent missed tape disclosure"
\* comes with fatalTapeDiscloser and callDisclaimer 0, one with "Customer
\* identification was not properly verified" comes with fatalIdentification 0, and
\* callClosing 5 comes without "Call ended without proper closing".
C18_ObservationAgreesWithScores ==
    (Returned /\ variant = "hi") =>
        LET clauses == ObservationClauses
        IN /\ response.observation = orElse(join(clauses, ". "), Fallback)
           /\ among(clauses, "Agent missed tape disclosure") =>
                 /\ response.scores.fatalTapeDiscloser = 0
                 /\ response.scores.callDisclaimer = 0
           /\ among(clauses, "Customer identification was not properly verified") =>
                 response.scores.fatalIdentification = 0
           /\ response.scores.callClosing = 5 =>
                 ~among(clauses, "Call ended without proper closing")

\* C18 witness: a Hindi transcript of two utterances without disclosure that ends
\* in thanks: the disclosure clause with both scores 0, closing 5 without its clause
C18_Witness ==
    /\ Returned /\ variant = "hi" /\ Len(utterances) = 2
    /\ inObservation("Agent missed tape disclosure")
    /\ response.scores.fatalTapeDiscloser = 0 /\ response.scores.callDisclaimer = 0
    /\ response.scores.callClosing = 5
    /\ ~inObservation("Call ended without proper closing")
    /\ ~textHas(1, HiClosingKeywords)

(***************************************************************************)
(* The page                                                                *)
(***************************************************************************)
\* C19 (as claimed): every click on Process ends with loading = false, whatever
\* the outcome of the request: once no handleProcess call is pending, loading
\* is false.
C19_LoadingClearedWhenSettled == process.stage = "none" => ~loading

\* C20 (as claimed): whenever feedback is non-null it is the analysis of the
\* currently selected file.
C20_FeedbackOfSelectedFile == feedback # NoFeedback => feedback.of = audioFile

=============================================================================
